---- MODULE Spec2Model ----
(***************************************************************************)
(* Model of the sandboxed code executor of src/src/tools/code_executor.py. *)
(*                                                                         *)
(* SafeCodeExecutor.execute is modelled statement by statement (the pc     *)
(* labels are the source line numbers) for two callers that share the one  *)
(* executor of the process: the main thread, where signal.signal works,    *)
(* and a worker thread, where it raises ValueError.  The process-global    *)
(* state is sys.stdout, sys.stderr, the pending SIGALRM alarm, the         *)
(* installed SIGALRM handler and the RLIMIT_AS limit.  The alarm is        *)
(* asynchronous: while it is pending it may fire between any two           *)
(* statements of the main thread.                                          *)
(*                                                                         *)
(* What the interpreter does with an admitted code string (exec) is the    *)
(* environment's choice, taken when exec starts: see Sems.                 *)
(***************************************************************************)
EXTENDS Integers, Sequences, FiniteSets, TLC

\* ------------------------------------------------------------------ bounds
MaxCalls == 2
MaxPrints == 1
MaxOverlapCalls == 1
MaxStrLen == 3

\* ----------------------------------------------------------------- callers
MainThread == "main"
Callers == {"main", "worker"}

\* ------------------------------------------------------------ Python values
PyStr(s) == [type |-> "str", val |-> s]
PyNone == [type |-> "none", val |-> <<>>]
PyInt5 == [type |-> "int", val |-> <<"5">>]
PyList(s) == [type |-> "list", val |-> s]

\* bool(v) of the values above
Truthy(v) == IF v.type = "none" THEN FALSE ELSE v.val # <<>>

IsStr(v) == v.type = "str"

\* ------------------------------------------------------------- deny-list
blocked_modules ==
  { <<"o","s">>,
    <<"s","u","b","p","r","o","c","e","s","s">>,
    <<"s","y","s">>,
    <<"s","o","c","k","e","t">>,
    <<"u","r","l","l","i","b">>,
    <<"r","e","q","u","e","s","t","s">>,
    <<"s","h","u","t","i","l">>,
    <<"p","i","c","k","l","e">>,
    <<"s","h","e","l","v","e">>,
    <<"_","_","i","m","p","o","r","t","_","_">>,
    <<"e","v","a","l">>,
    <<"e","x","e","c">>,
    <<"c","o","m","p","i","l","e">>,
    <<"o","p","e","n">>,
    <<"f","i","l","e">>,
    <<"i","n","p","u","t">>,
    <<"r","a","w","_","i","n","p","u","t">> }

\* str.lower() on the characters the inputs use
LowerChar(ch) ==
  CASE ch = "O" -> "o"
    [] ch = "S" -> "s"
    [] ch = "Y" -> "y"
    [] ch = "X" -> "x"
    [] OTHER -> ch

Lower(s) == [i \in 1..Len(s) |-> LowerChar(s[i])]

\* `sub in s` for strings
Contains(s, sub) ==
  \E i \in 0..(Len(s) - Len(sub)) :
     \A j \in 1..Len(sub) : s[i + j] = sub[j]

\* the scan of lines 92-96 without line 92: the code compared as written
BlockedHitsCaseSensitive(text) == { b \in blocked_modules : Contains(text, b) }

\* the tokens the scan of lines 92-96 can stop at: the set is iterated in an
\* order the program does not fix, so any token that occurs may be the one
BlockedHits(text) == { b \in blocked_modules : Contains(Lower(text), b) }

\* ---------------------------------------------------------------- messages
Msg(text, arg) == [text |-> text, arg |-> arg]
NoMsg == Msg("", <<>>)
MsgInvalid == Msg("Invalid code input", <<>>)
MsgBlocked(b) == Msg("Blocked operation detected: ", b)
MsgSuccess == Msg("Code executed successfully", <<>>)
MsgTimeout == Msg("Code execution exceeded <timeout> seconds", <<>>)
MsgMemory == Msg("Memory limit exceeded", <<>>)
MsgSyntax == Msg("Syntax error: <detail>", <<>>)
MsgExecError == Msg("Execution error: <kind>: <detail>", <<>>)

\* ------------------------------------------------------------------- sinks
\* a sink is the process's own stream or the capture buffer of one call
OrigSink == [owner |-> "process", call |-> 0]
Capture(c, k) == [owner |-> c, call |-> k]

\* ------------------------------------------------------ what the code does
\* kind: ok        runs to completion
\*       syntax    does not compile
\*       exception raises an Exception other than the three below
\*       memory    raises MemoryError
\*       baseexc   raises a BaseException that is no Exception
\*       loop      never finishes, does not catch what the alarm raises
\*       loopcatch never finishes and catches every exception in its loop
\*       rebind    runs to completion and rebinds a name of safe_builtins, in
\*                 its own __builtins__ and in the builtins module, which it
\*                 reaches as print.__self__
\* prints: the number of print() calls a completing code makes
SemKinds == {"ok", "syntax", "exception", "memory", "baseexc", "loop", "loopcatch",
             "rebind"}
Sems == { s \in [kind : SemKinds, prints : 0..MaxPrints] :
            s.kind # "ok" => s.prints = 0 }
\* what one print() of the code that caller c submits writes
PrintText(c) == IF c = MainThread THEN <<"a", "\n">> ELSE <<"b", "\n">>

NoSem == [kind |-> "none", prints |-> 0]

\* who bound a name: Python at start-up, or the code of call k of caller c
Original == [owner |-> "python", call |-> 0]
BoundBy(c, k) == [owner |-> c, call |-> k]
\* a call that has not built its namespaces
NoNamespace == [owner |-> "none", call |-> 0]

\* What a code does when it is run on its own, by exec(code) with the full
\* builtins and one namespace: pure is TRUE for valid code that only computes
\* with the names of safe_builtins, does no I/O but print() and ends within
\* the limits, and prints is then the number of its print() calls. AnyCode
\* says nothing about the code.
Pure(n) == [pure |-> TRUE, prints |-> n]
AnyCode == [pure |-> FALSE, prints |-> 0]
PlainKinds == { Pure(n) : n \in 0..MaxPrints } \cup { AnyCode }

\* exec(code, safe_globals, safe_locals), lines 113-117: what a code does
\* there, given what it does on its own. With two namespaces the names the
\* code binds at its top level go to safe_locals, where the bodies of its
\* functions and comprehensions do not look: pure code that reads such a name
\* there raises NameError (as does a class statement: no __build_class__).
SandboxSems(u) ==
  IF u.pure
    THEN { [kind |-> "ok", prints |-> u.prints], [kind |-> "exception", prints |-> 0] }
    ELSE Sems
NonTerminating == {"loop", "loopcatch"}

\* the arguments execute is called with
CodeInputs ==
  { PyNone, PyInt5, PyList(<<"x">>),
    PyStr(<<>>),
    PyStr(<<"x">>),
    PyStr(<<"o","s">>),
    PyStr(<<"x","O","s">>),
    PyStr(<<"S","Y","S">>),
    PyStr(<<"s","y","s","o","s">>) }

\* what the argument v of execute may do when run on its own: the empty
\* string is the empty program; the other strings stand for any code in
\* which their characters occur
PlainOf(v) ==
  IF ~IsStr(v) THEN { AnyCode }
  ELSE IF v.val = <<>> THEN { Pure(0) }
  ELSE PlainKinds

\* the arguments of the calls that overlap
OverlapInputs == { PyStr(<<>>), PyStr(<<"x">>), PyStr(<<"o","s">>) }

EmptyResult == [output |-> <<>>, errors |-> <<>>, success |-> FALSE, message |-> NoMsg]


\* ------------------------------------------------------------- comparator
\* str.strip(): leading and trailing whitespace removed
IsSpace(ch) == ch \in {" ", "\n", "\t"}

RECURSIVE LStrip(_)
LStrip(s) == IF s # <<>> /\ IsSpace(Head(s)) THEN LStrip(Tail(s)) ELSE s

RECURSIVE RStrip(_)
RStrip(s) ==
  IF s # <<>> /\ IsSpace(s[Len(s)]) THEN RStrip(SubSeq(s, 1, Len(s) - 1)) ELSE s

\* str.rstrip() in the place of str.strip(): only trailing whitespace removed
StripTrailingOnly(s) == RStrip(s)

Strip(s) == RStrip(LStrip(s))

ModeExact == <<"e","x","a","c","t">>
ModeFuzzy == <<"f","u","z","z","y">>
ModeContains == <<"c","o","n","t","a","i","n","s">>

\* difflib.SequenceMatcher(None, a, b): the blocks a[i+1..i+k] = b[j+1..j+k]
\* inside a[alo+1..ahi], b[blo+1..bhi]
Blocks(a, b, alo, ahi, blo, bhi) ==
  { m \in [i : alo..(ahi - 1), j : blo..(bhi - 1), k : 1..(ahi - alo)] :
      /\ m.i + m.k <= ahi
      /\ m.j + m.k <= bhi
      /\ \A t \in 1..m.k : a[m.i + t] = b[m.j + t] }

\* find_longest_match: the longest block; of those, the one that starts
\* earliest in a; of those, the one that starts earliest in b
LongestMatch(a, b, alo, ahi, blo, bhi) ==
  LET all == Blocks(a, b, alo, ahi, blo, bhi)
  IN CHOOSE m \in all :
       \A n \in all :
          \/ m.k > n.k
          \/ m.k = n.k /\ m.i < n.i
          \/ m.k = n.k /\ m.i = n.i /\ m.j <= n.j

\* get_matching_blocks: the total size of the blocks found by taking the
\* longest match and recurring to its left and to its right
RECURSIVE Matches(_, _, _, _, _, _)
Matches(a, b, alo, ahi, blo, bhi) ==
  IF Blocks(a, b, alo, ahi, blo, bhi) = {} THEN 0
  ELSE LET m == LongestMatch(a, b, alo, ahi, blo, bhi)
       IN m.k + Matches(a, b, alo, m.i, blo, m.j)
              + Matches(a, b, m.i + m.k, ahi, m.j + m.k, bhi)

\* a float in [0, 1] as the fraction num/den it is computed from
Frac(num, den) == [num |-> num, den |-> den]
One == Frac(1, 1)
Zero == Frac(0, 1)

\* SequenceMatcher.ratio(): 2.0 * matches / length, 1.0 when both are empty
Ratio(a, b) ==
  IF Len(a) + Len(b) = 0 THEN One
  ELSE Frac(2 * Matches(a, b, 0, Len(a), 0, Len(b)), Len(a) + Len(b))

\* similarity > 0.8 in the place of line 290's >=
AboveThreshold(f) == 10 * f.num > 8 * f.den

\* similarity >= 0.8 (line 290)
AtLeastThreshold(f) == 10 * f.num >= 8 * f.den

\* _compare_outputs (lines 250-309); mode is any Python value, actual and
\* expected are strings
Comparison(mode, match, similarity, details) ==
  [mode |-> mode, match |-> match, similarity |-> similarity, details |-> details]

_compare_outputs(actual, expected, mode) ==
  LET actual_stripped == Strip(actual)
      expected_stripped == Strip(expected)
  IN CASE mode = PyStr(ModeExact) ->
            LET match == actual_stripped = expected_stripped
            IN Comparison(mode, match, IF match THEN One ELSE Zero,
                          IF match THEN "matches exactly" ELSE "does not match")
       [] mode = PyStr(ModeFuzzy) ->
            LET similarity == Ratio(actual_stripped, expected_stripped)
                match == AtLeastThreshold(similarity)
            IN Comparison(mode, match, similarity,
                          IF match THEN "matches with similarity" ELSE "only similar")
       [] mode = PyStr(ModeContains) ->
            LET match == Contains(actual_stripped, expected_stripped)
            IN Comparison(mode, match, Zero,
                          IF match THEN "contains" ELSE "does not contain")
       [] OTHER -> Comparison(mode, FALSE, Zero, "Unknown comparison mode")

\* the characters of the strings compared, and the modes
CompareAlphabet == {" ", "a", "b"}
CompareModes == { PyStr(ModeExact), PyStr(ModeFuzzy), PyStr(ModeContains), PyStr(<<"x">>) }

\* ------------------------------------------------------------------ facade
\* a key that a JSON object does not have
Missing == [type |-> "missing", val |-> <<>>]

\* dict.get(key, default)
Get(field, default) == IF field = Missing THEN default ELSE field

\* len(v) raises TypeError for these
HasLen(v) == v.type \in {"str", "list"}

\* The input string of execute_and_compare, by what json.loads makes of it:
\*   raw     no JSON text: json.loads raises JSONDecodeError; text is the string
\*   value   the JSON text `text` of a value that is no object
\*   object  the JSON text of an object with these fields
RawInput(text) ==
  [kind |-> "raw", text |-> text, value |-> PyNone,
   fields |-> [code |-> Missing, expected_output |-> Missing, compare_mode |-> Missing]]
ValueInput(text, v) ==
  [kind |-> "value", text |-> text, value |-> v,
   fields |-> [code |-> Missing, expected_output |-> Missing, compare_mode |-> Missing]]
ObjectInput(c, e, m) ==
  [kind |-> "object", text |-> <<>>, value |-> PyNone,
   fields |-> [code |-> c, expected_output |-> e, compare_mode |-> m]]

FacadeInputs ==
  { RawInput(<<>>), RawInput(<<"x">>), RawInput(<<"O","s">>) }
  \cup { ValueInput(<<"n","u","l","l">>, PyNone), ValueInput(<<"5">>, PyInt5),
         ValueInput(<<"[","]">>, PyList(<<>>)),
         ValueInput(<<"\"","x","\"">>, PyStr(<<"x">>)) }
  \cup { ObjectInput(c, e, m) :
           c \in {Missing, PyNone, PyInt5, PyList(<<>>), PyStr(<<"x">>), PyStr(<<"o","s">>)},
           e \in {Missing, PyNone, PyInt5, PyStr(<<" ","a","\n">>), PyStr(<<"b">>)},
           m \in {Missing, PyStr(ModeContains), PyStr(<<"x">>)} }

NoComparison == Comparison(PyNone, FALSE, Zero, "None")

\* the map execute_and_compare returns: keys is the set of its keys
NoMap ==
  [keys |-> {}, code |-> PyNone, execution_success |-> FALSE, output |-> <<>>,
   errors |-> <<>>, message |-> NoMsg, expected_output |-> PyNone,
   comparison |-> NoComparison]

\* lines 223-226
ToolError == [NoMap EXCEPT !.keys = {"success", "error"}]

\* lines 198-206
FullMap(c, r, e) ==
  [keys |-> {"code", "execution_success", "output", "errors", "message",
             "expected_output", "comparison"},
   code |-> c, execution_success |-> r.success, output |-> r.output,
   errors |-> r.errors, message |-> r.message, expected_output |-> e,
   comparison |-> NoComparison]

\* lines 242-248
SimpleMap(c, r) ==
  [keys |-> {"code", "execution_success", "output", "errors", "message"},
   code |-> c, execution_success |-> r.success, output |-> r.output,
   errors |-> r.errors, message |-> r.message, expected_output |-> PyNone,
   comparison |-> NoComparison]

VARIABLES
  pc,            \* pc[c]: where caller c is in execute ("idle" outside it)
  code,          \* code[c]: the argument of c's call
  sem,           \* sem[c]: what the code of c's call does once exec runs it
  printed,       \* printed[c]: print() calls the code of c's call has made
  plain,         \* plain[c]: what the code of c's call does when run on its own
  builtins,      \* the builtins module: who bound the names safe_builtins reads
  safe_globals,  \* safe_globals of c's call: who bound the names of its __builtins__
  safe_locals,   \* safe_locals of c's call: who bound its names
  spin,          \* spin[c]: the parity of the iterations of the code's endless loop
  calls,         \* calls[c]: calls c has begun; the current one is number calls[c]
  origOut,       \* original_stdout of c's call
  origErr,       \* original_stderr of c's call
  result,        \* result of c's call
  exc,           \* the exception propagating in c's call, "none" if none
  bufOut,        \* contents of stdout_capture of c's call
  bufErr,        \* contents of stderr_capture of c's call
  closed,        \* the capture buffers that have been closed
  sysStdout,     \* sys.stdout
  sysStderr,     \* sys.stderr
  alarmPending,  \* a SIGALRM alarm is armed and has not fired
  sigHandler,    \* the installed SIGALRM handler
  rlimitAS,      \* the RLIMIT_AS limit of the process
  did,           \* history: the global effects c's call has had so far
  entry,         \* history: the global state when c's call began
  fpc,           \* where the call of execute_and_compare is ("idle" outside it)
  who,           \* the caller that is in execute_and_compare
  input,         \* input_data
  fcode,         \* code (line 188)
  expected,      \* expected_output (line 189)
  compare_mode,  \* compare_mode (line 190)
  exec_result,   \* exec_result (lines 195 and 240)
  fresult,       \* the map execute_and_compare returns
  fexc,          \* the exception that leaves execute_and_compare, "none" if none
  cmpActual,     \* the arguments and the result of a call of _compare_outputs
  cmpExpected,
  cmpMode,
  cmpResult

vars == << pc, code, sem, printed, plain, spin, builtins, safe_globals, safe_locals, calls,
           origOut, origErr, result, exc, bufOut,
           bufErr, closed, sysStdout, sysStderr, alarmPending, sigHandler,
           rlimitAS, did, entry, fpc, who, input, fcode, expected, compare_mode,
           exec_result, fresult, fexc, cmpActual, cmpExpected, cmpMode, cmpResult >>

facadeVars == << fpc, who, input, fcode, expected, compare_mode, exec_result,
                fresult, fexc >>
cmpVars == << cmpActual, cmpExpected, cmpMode, cmpResult >>

Globals == [out |-> sysStdout, err |-> sysStderr, alarm |-> alarmPending,
            handler |-> sigHandler, rlimit |-> rlimitAS]

ExecutorInit ==
  /\ pc = [c \in Callers |-> "idle"]
  /\ code = [c \in Callers |-> PyNone]
  /\ sem = [c \in Callers |-> NoSem]
  /\ printed = [c \in Callers |-> 0]
  /\ spin = [c \in Callers |-> FALSE]
  /\ plain = [c \in Callers |-> AnyCode]
  /\ builtins = Original
  /\ safe_globals = [c \in Callers |-> NoNamespace]
  /\ safe_locals = [c \in Callers |-> {}]
  /\ calls = [c \in Callers |-> 0]
  /\ origOut = [c \in Callers |-> OrigSink]
  /\ origErr = [c \in Callers |-> OrigSink]
  /\ result = [c \in Callers |-> EmptyResult]
  /\ exc = [c \in Callers |-> "none"]
  /\ bufOut = [c \in Callers |-> <<>>]
  /\ bufErr = [c \in Callers |-> <<>>]
  /\ closed = {}
  /\ sysStdout = OrigSink
  /\ sysStderr = OrigSink
  /\ alarmPending = FALSE
  /\ sigHandler = "SIG_DFL"
  /\ rlimitAS = "unlimited"
  /\ did = [c \in Callers |-> {}]
  /\ entry = [c \in Callers |-> Globals]

FacadeInit ==
  /\ fpc = "idle"
  /\ who = MainThread
  /\ input = RawInput(<<>>)
  /\ fcode = PyNone
  /\ expected = PyNone
  /\ compare_mode = PyNone
  /\ exec_result = EmptyResult
  /\ fresult = NoMap
  /\ fexc = "none"

CompareIdle ==
  /\ cmpActual = <<>>
  /\ cmpExpected = <<>>
  /\ cmpMode = PyNone
  /\ cmpResult = NoComparison

Init == ExecutorInit /\ FacadeInit /\ CompareIdle

\* ------------------------------------------------------------ SafeCodeExecutor
\* where control goes when `kind` is raised inside the try body (lines 85-120):
\* the except clauses of lines 122-129; anything else goes to the finally
\* block with the exception still propagating
HandlerPc(kind) ==
  CASE kind = "TimeoutError" -> "L123"
    [] kind = "MemoryError" -> "L125"
    [] kind = "SyntaxError" -> "L127"
    [] kind = "Exception" -> "L129"
    [] OTHER -> "L133"

\* the exception left propagating once the except clauses have been tried
Uncaught(kind) == IF HandlerPc(kind) = "L133" THEN kind ELSE "none"

\* a call begins: lines 71-72 and 78-83
Call(c, v, u) ==
  /\ pc[c] = "idle"
  /\ plain' = [plain EXCEPT ![c] = u]
  /\ calls[c] < MaxCalls
  /\ pc' = [pc EXCEPT ![c] = "L75"]
  /\ code' = [code EXCEPT ![c] = v]
  /\ calls' = [calls EXCEPT ![c] = @ + 1]
  /\ result' = [result EXCEPT ![c] = EmptyResult]
  /\ bufOut' = [bufOut EXCEPT ![c] = <<>>]
  /\ bufErr' = [bufErr EXCEPT ![c] = <<>>]
  /\ did' = [did EXCEPT ![c] = {}]
  /\ entry' = [entry EXCEPT ![c] = Globals]
  /\ UNCHANGED << sem, printed, spin, builtins, safe_globals, safe_locals,
                  origOut, origErr, exc, closed, sysStdout,
                  sysStderr, alarmPending, sigHandler, rlimitAS >>

\* line 75
SaveStdout(c) ==
  /\ pc[c] = "L75"
  /\ origOut' = [origOut EXCEPT ![c] = sysStdout]
  /\ pc' = [pc EXCEPT ![c] = "L76"]
  /\ UNCHANGED << code, sem, printed, calls, origErr, result, exc, bufOut, bufErr,
                  closed, sysStdout, sysStderr, alarmPending, sigHandler,
                  rlimitAS, did, entry,
                  builtins, safe_globals, safe_locals, plain, spin, facadeVars, cmpVars >>

\* line 76
SaveStderr(c) ==
  /\ pc[c] = "L76"
  /\ origErr' = [origErr EXCEPT ![c] = sysStderr]
  /\ pc' = [pc EXCEPT ![c] = "L87"]
  /\ UNCHANGED << code, sem, printed, calls, origOut, result, exc, bufOut, bufErr,
                  closed, sysStdout, sysStderr, alarmPending, sigHandler,
                  rlimitAS, did, entry,
                  builtins, safe_globals, safe_locals, plain, spin, facadeVars, cmpVars >>

\* lines 87-89: the return runs the finally block
Validate(c) ==
  /\ pc[c] = "L87"
  /\ IF ~Truthy(code[c]) \/ ~IsStr(code[c])
       THEN /\ result' = [result EXCEPT ![c].message = MsgInvalid]
            /\ pc' = [pc EXCEPT ![c] = "L133"]
       ELSE /\ pc' = [pc EXCEPT ![c] = "L92"]
            /\ UNCHANGED result
  /\ UNCHANGED << code, sem, printed, calls, origOut, origErr, exc, bufOut, bufErr,
                  closed, sysStdout, sysStderr, alarmPending, sigHandler,
                  rlimitAS, did, entry,
                  builtins, safe_globals, safe_locals, plain, spin, facadeVars, cmpVars >>

\* lines 92-96
Screen(c) ==
  /\ pc[c] = "L92"
  /\ IF BlockedHits(code[c].val) # {}
       THEN \E b \in BlockedHits(code[c].val) :
              /\ result' = [result EXCEPT ![c].message = MsgBlocked(b)]
              /\ pc' = [pc EXCEPT ![c] = "L133"]
       ELSE /\ pc' = [pc EXCEPT ![c] = "L100"]
            /\ UNCHANGED result
  /\ UNCHANGED << code, sem, printed, calls, origOut, origErr, exc, bufOut, bufErr,
                  closed, sysStdout, sysStderr, alarmPending, sigHandler,
                  rlimitAS, did, entry,
                  builtins, safe_globals, safe_locals, plain, spin, facadeVars, cmpVars >>

\* line 100: signal.signal raises ValueError outside the main thread, which
\* lines 102-103 swallow, so that line 101 is skipped
InstallHandler(c) ==
  /\ pc[c] = "L100"
  /\ IF c = MainThread
       THEN /\ sigHandler' = "_timeout_handler"
            /\ did' = [did EXCEPT ![c] = @ \cup {"handler"}]
            /\ pc' = [pc EXCEPT ![c] = "L101"]
       ELSE /\ pc' = [pc EXCEPT ![c] = "L106"]
            /\ UNCHANGED << sigHandler, did >>
  /\ UNCHANGED << code, sem, printed, calls, origOut, origErr, result, exc, bufOut,
                  bufErr, closed, sysStdout, sysStderr, alarmPending, rlimitAS, entry,
                  builtins, safe_globals, safe_locals, plain, spin, facadeVars, cmpVars >>

\* line 101
ArmAlarm(c) ==
  /\ pc[c] = "L101"
  /\ alarmPending' = TRUE
  /\ did' = [did EXCEPT ![c] = @ \cup {"alarm"}]
  /\ pc' = [pc EXCEPT ![c] = "L106"]
  /\ UNCHANGED << code, sem, printed, calls, origOut, origErr, result, exc, bufOut,
                  bufErr, closed, sysStdout, sysStderr, sigHandler, rlimitAS, entry,
                  builtins, safe_globals, safe_locals, plain, spin, facadeVars, cmpVars >>

\* line 106, _set_limits (lines 38-44)
SetLimits(c) ==
  /\ pc[c] = "L106"
  /\ rlimitAS' = "memory_limit"
  /\ did' = [did EXCEPT ![c] = @ \cup {"rlimit"}]
  /\ pc' = [pc EXCEPT ![c] = "L109"]
  /\ UNCHANGED << code, sem, printed, calls, origOut, origErr, result, exc, bufOut,
                  bufErr, closed, sysStdout, sysStderr, alarmPending, sigHandler, entry,
                  builtins, safe_globals, safe_locals, plain, spin, facadeVars, cmpVars >>

\* line 109
RedirectStdout(c) ==
  /\ pc[c] = "L109"
  /\ sysStdout' = Capture(c, calls[c])
  /\ did' = [did EXCEPT ![c] = @ \cup {"redirect"}]
  /\ pc' = [pc EXCEPT ![c] = "L110"]
  /\ UNCHANGED << code, sem, printed, calls, origOut, origErr, result, exc, bufOut,
                  bufErr, closed, sysStderr, alarmPending, sigHandler, rlimitAS, entry,
                  builtins, safe_globals, safe_locals, plain, spin, facadeVars, cmpVars >>

\* line 110
RedirectStderr(c) ==
  /\ pc[c] = "L110"
  /\ sysStderr' = Capture(c, calls[c])
  /\ did' = [did EXCEPT ![c] = @ \cup {"redirect"}]
  /\ pc' = [pc EXCEPT ![c] = "L113"]
  /\ UNCHANGED << code, sem, printed, calls, origOut, origErr, result, exc, bufOut,
                  bufErr, closed, sysStdout, alarmPending, sigHandler, rlimitAS, entry,
                  builtins, safe_globals, safe_locals, plain, spin, facadeVars, cmpVars >>

\* lines 113-114: _create_safe_globals (lines 46-58) makes a new dict of the
\* objects that the names abs, ..., zip have in the builtins module now;
\* safe_locals is a new empty dict
BuildNamespaces(c) ==
  /\ pc[c] = "L113"
  /\ safe_globals' = [safe_globals EXCEPT ![c] = builtins]
  /\ safe_locals' = [safe_locals EXCEPT ![c] = {}]
  /\ pc' = [pc EXCEPT ![c] = "L117"]
  /\ UNCHANGED << code, sem, printed, calls, origOut, origErr, result, exc, bufOut,
                  bufErr, closed, sysStdout, sysStderr, alarmPending, sigHandler,
                  rlimitAS, did, entry, builtins, plain, spin, facadeVars, cmpVars >>

\* line 117: exec compiles the code, then runs it
ExecStart(c) ==
  /\ pc[c] = "L117"
  /\ \E s \in SandboxSems(plain[c]) :
       /\ sem' = [sem EXCEPT ![c] = s]
       /\ pc' = [pc EXCEPT ![c] =
                   IF s.kind = "syntax" THEN HandlerPc("SyntaxError") ELSE "running"]
  /\ printed' = [printed EXCEPT ![c] = 0]
  /\ did' = [did EXCEPT ![c] = @ \cup {"exec"}]
  /\ UNCHANGED << code, calls, origOut, origErr, result, exc, bufOut, bufErr,
                  closed, sysStdout, sysStderr, alarmPending, sigHandler,
                  rlimitAS, entry,
                  builtins, safe_globals, safe_locals, plain, spin, facadeVars, cmpVars >>

\* the running code calls print(): the text goes to whatever sys.stdout is
\* now; writing to a closed buffer raises ValueError in the code
UserPrint(c) ==
  /\ pc[c] = "running"
  /\ printed[c] < sem[c].prints
  /\ printed' = [printed EXCEPT ![c] = @ + 1]
  /\ IF sysStdout \in closed
       THEN /\ pc' = [pc EXCEPT ![c] =
                        IF sem[c].kind = "loopcatch" THEN "running"
                        ELSE HandlerPc("Exception")]
            /\ UNCHANGED bufOut
       ELSE /\ bufOut' =
                 [o \in Callers |->
                    IF sysStdout = Capture(o, calls[o]) /\ pc[o] # "idle"
                      THEN bufOut[o] \o PrintText(c) ELSE bufOut[o]]
            /\ UNCHANGED pc
  /\ UNCHANGED << code, sem, calls, origOut, origErr, result, exc, bufErr, closed,
                  sysStdout, sysStderr, alarmPending, sigHandler, rlimitAS, did, entry,
                  builtins, safe_globals, safe_locals, plain, spin, facadeVars, cmpVars >>

\* the running code ends: it completes, or it raises
UserEnd(c) ==
  /\ pc[c] = "running"
  /\ printed[c] = sem[c].prints
  /\ sem[c].kind \notin NonTerminating
  /\ LET kind == CASE sem[c].kind = "exception" -> "Exception"
                   [] sem[c].kind = "memory" -> "MemoryError"
                   [] sem[c].kind = "baseexc" -> "BaseException"
                   [] OTHER -> "none"
     IN /\ pc' = [pc EXCEPT ![c] = IF kind = "none" THEN "L119" ELSE HandlerPc(kind)]
        /\ exc' = [exc EXCEPT ![c] = Uncaught(kind)]
  /\ IF sem[c].kind \in {"ok", "rebind"}
       THEN safe_locals' = [safe_locals EXCEPT ![c] = {BoundBy(c, calls[c])}]
       ELSE UNCHANGED safe_locals
  /\ IF sem[c].kind = "rebind"
       THEN /\ safe_globals' = [safe_globals EXCEPT ![c] = BoundBy(c, calls[c])]
            /\ builtins' = BoundBy(c, calls[c])
       ELSE UNCHANGED << safe_globals, builtins >>
  /\ UNCHANGED << code, sem, printed, calls, origOut, origErr, result, bufOut,
                  bufErr, closed, sysStdout, sysStderr, alarmPending, sigHandler,
                  rlimitAS, did, entry, plain, spin, facadeVars, cmpVars >>

\* the running code goes round its endless loop once more
UserLoop(c) ==
  /\ pc[c] = "running"
  /\ printed[c] = sem[c].prints
  /\ sem[c].kind \in NonTerminating
  /\ spin' = [spin EXCEPT ![c] = ~@]
  /\ UNCHANGED << pc, code, sem, printed, calls, origOut, origErr, result, exc,
                  bufOut, bufErr, closed, sysStdout, sysStderr, alarmPending,
                  sigHandler, rlimitAS, did, entry, plain, builtins, safe_globals,
                  safe_locals, facadeVars, cmpVars >>

\* line 119
SetSuccess(c) ==
  /\ pc[c] = "L119"
  /\ result' = [result EXCEPT ![c].success = TRUE]
  /\ pc' = [pc EXCEPT ![c] = "L120"]
  /\ UNCHANGED << code, sem, printed, calls, origOut, origErr, exc, bufOut, bufErr,
                  closed, sysStdout, sysStderr, alarmPending, sigHandler,
                  rlimitAS, did, entry,
                  builtins, safe_globals, safe_locals, plain, spin, facadeVars, cmpVars >>

\* line 120
SetSuccessMessage(c) ==
  /\ pc[c] = "L120"
  /\ result' = [result EXCEPT ![c].message = MsgSuccess]
  /\ pc' = [pc EXCEPT ![c] = "L133"]
  /\ UNCHANGED << code, sem, printed, calls, origOut, origErr, exc, bufOut, bufErr,
                  closed, sysStdout, sysStderr, alarmPending, sigHandler,
                  rlimitAS, did, entry,
                  builtins, safe_globals, safe_locals, plain, spin, facadeVars, cmpVars >>

\* the message each except clause sets
HandlerMessage(at) ==
  CASE at = "L123" -> MsgTimeout
    [] at = "L125" -> MsgMemory
    [] at = "L127" -> MsgSyntax
    [] OTHER -> MsgExecError

\* lines 123, 125, 127, 129
Handle(c) ==
  /\ pc[c] \in {"L123", "L125", "L127", "L129"}
  /\ result' = [result EXCEPT ![c].message = HandlerMessage(pc[c])]
  /\ pc' = [pc EXCEPT ![c] = "L133"]
  /\ UNCHANGED << code, sem, printed, calls, origOut, origErr, exc, bufOut, bufErr,
                  closed, sysStdout, sysStderr, alarmPending, sigHandler,
                  rlimitAS, did, entry,
                  builtins, safe_globals, safe_locals, plain, spin, facadeVars, cmpVars >>

\* the finally block without its lines 132-135: the alarm is left as it is
LeaveAlarm(c) ==
  /\ pc[c] = "L133"
  /\ pc' = [pc EXCEPT ![c] = "L138"]
  /\ UNCHANGED << code, sem, printed, calls, origOut, origErr, result, exc, bufOut,
                  bufErr, closed, sysStdout, sysStderr, alarmPending, sigHandler,
                  rlimitAS, did, entry, plain, spin, builtins, safe_globals,
                  safe_locals, facadeVars, cmpVars >>

\* lines 132-135, the first statement of the finally block
CancelAlarm(c) ==
  /\ pc[c] = "L133"
  /\ alarmPending' = FALSE
  /\ pc' = [pc EXCEPT ![c] = "L138"]
  /\ UNCHANGED << code, sem, printed, calls, origOut, origErr, result, exc, bufOut,
                  bufErr, closed, sysStdout, sysStderr, sigHandler, rlimitAS, did, entry,
                  builtins, safe_globals, safe_locals, plain, spin, facadeVars, cmpVars >>

\* line 138
RestoreStdout(c) ==
  /\ pc[c] = "L138"
  /\ sysStdout' = origOut[c]
  /\ pc' = [pc EXCEPT ![c] = "L139"]
  /\ UNCHANGED << code, sem, printed, calls, origOut, origErr, result, exc, bufOut,
                  bufErr, closed, sysStderr, alarmPending, sigHandler, rlimitAS,
                  did, entry,
                  builtins, safe_globals, safe_locals, plain, spin, facadeVars, cmpVars >>

\* line 139
RestoreStderr(c) ==
  /\ pc[c] = "L139"
  /\ sysStderr' = origErr[c]
  /\ pc' = [pc EXCEPT ![c] = "L142"]
  /\ UNCHANGED << code, sem, printed, calls, origOut, origErr, result, exc, bufOut,
                  bufErr, closed, sysStdout, alarmPending, sigHandler, rlimitAS,
                  did, entry,
                  builtins, safe_globals, safe_locals, plain, spin, facadeVars, cmpVars >>

\* lines 142-143
CaptureOutput(c) ==
  /\ pc[c] = "L142"
  /\ result' = [result EXCEPT ![c].output = bufOut[c], ![c].errors = bufErr[c]]
  /\ pc' = [pc EXCEPT ![c] = "L146"]
  /\ UNCHANGED << code, sem, printed, calls, origOut, origErr, exc, bufOut, bufErr,
                  closed, sysStdout, sysStderr, alarmPending, sigHandler,
                  rlimitAS, did, entry,
                  builtins, safe_globals, safe_locals, plain, spin, facadeVars, cmpVars >>

\* lines 146-149: the buffers are closed and the call ends, by returning
\* result or by raising the exception no except clause took
CloseAndReturn(c) ==
  /\ pc[c] = "L146"
  /\ closed' = closed \cup {Capture(c, calls[c])}
  /\ pc' = [pc EXCEPT ![c] = IF exc[c] = "none" THEN "returned" ELSE "raised"]
  /\ UNCHANGED << code, sem, printed, calls, origOut, origErr, result, exc, bufOut,
                  bufErr, sysStdout, sysStderr, alarmPending, sigHandler,
                  rlimitAS, did, entry,
                  builtins, safe_globals, safe_locals, plain, spin, facadeVars, cmpVars >>

\* the caller takes the outcome; the locals of the call are gone
Leave(c) ==
  /\ pc[c] \in {"returned", "raised"}
  /\ pc' = [pc EXCEPT ![c] = "idle"]
  /\ code' = [code EXCEPT ![c] = PyNone]
  /\ sem' = [sem EXCEPT ![c] = NoSem]
  /\ printed' = [printed EXCEPT ![c] = 0]
  /\ spin' = [spin EXCEPT ![c] = FALSE]
  /\ plain' = [plain EXCEPT ![c] = AnyCode]
  /\ origOut' = [origOut EXCEPT ![c] = OrigSink]
  /\ origErr' = [origErr EXCEPT ![c] = OrigSink]
  /\ result' = [result EXCEPT ![c] = EmptyResult]
  /\ exc' = [exc EXCEPT ![c] = "none"]
  /\ bufOut' = [bufOut EXCEPT ![c] = <<>>]
  /\ bufErr' = [bufErr EXCEPT ![c] = <<>>]
  /\ did' = [did EXCEPT ![c] = {}]
  /\ entry' = [entry EXCEPT ![c] = Globals]
  /\ safe_globals' = [safe_globals EXCEPT ![c] = NoNamespace]
  /\ safe_locals' = [safe_locals EXCEPT ![c] = {}]
  /\ UNCHANGED << calls, closed, sysStdout, sysStderr, alarmPending, sigHandler,
                  rlimitAS, builtins >>

\* ------------------------------------------------------------------ SIGALRM
\* where _timeout_handler's TimeoutError (line 36) lands when the alarm fires
\* while the main thread is at `at`:
\*   in the try body            the except clause of line 122
\*   in code that catches it    the code goes on running
\*   in an except clause        the finally block, the exception propagating
\*   in the finally block,      out of execute: the rest of the finally block
\*   before line 133 has run    is skipped
TimeoutLanding(at, kind) ==
  CASE at \in {"L106", "L109", "L110", "L113", "L117", "L119", "L120"} -> "L123"
    [] at = "running" -> IF kind = "loopcatch" THEN "running" ELSE "L123"
    [] at \in {"L123", "L125", "L127", "L129"} -> "L133"
    [] OTHER -> "raised"

\* the alarm fires; Python runs the handler in the main thread
AlarmFire ==
  /\ alarmPending
  /\ sigHandler = "_timeout_handler"
  /\ pc[MainThread] \in {"L106", "L109", "L110", "L113", "L117", "running", "L119",
                         "L120",
                         "L123", "L125", "L127", "L129", "L133"}
  /\ alarmPending' = FALSE
  /\ did' = [did EXCEPT ![MainThread] = @ \cup {"fired"}]
  /\ LET to == TimeoutLanding(pc[MainThread], sem[MainThread].kind)
     IN /\ pc' = [pc EXCEPT ![MainThread] = to]
        /\ exc' = [exc EXCEPT ![MainThread] =
                     IF to \in {"L133", "raised"} THEN "TimeoutError" ELSE @]
  /\ UNCHANGED << code, sem, printed, calls, origOut, origErr, result, bufOut,
                  bufErr, closed, sysStdout, sysStderr, sigHandler, rlimitAS, entry,
                  builtins, safe_globals, safe_locals, plain, spin, facadeVars, cmpVars >>

\* the alarm fires while the main thread is inside the try block of
\* _set_limits (lines 40-44): TimeoutError is an OSError, which line 43
\* swallows (resource.error is OSError), before or after setrlimit has run
AlarmFireInSetLimits ==
  /\ alarmPending
  /\ sigHandler = "_timeout_handler"
  /\ pc[MainThread] = "L106"
  /\ alarmPending' = FALSE
  /\ pc' = [pc EXCEPT ![MainThread] = "L109"]
  /\ \/ /\ rlimitAS' = "memory_limit"
        /\ did' = [did EXCEPT ![MainThread] = @ \cup {"fired", "rlimit"}]
     \/ /\ UNCHANGED rlimitAS
        /\ did' = [did EXCEPT ![MainThread] = @ \cup {"fired"}]
  /\ UNCHANGED << code, sem, printed, calls, origOut, origErr, result, exc, bufOut,
                  bufErr, closed, sysStdout, sysStderr, sigHandler, entry,
                  builtins, safe_globals, safe_locals, plain, spin, facadeVars, cmpVars >>

\* ------------------------------------------------------------ CodeExecutorTool
executorVars == << pc, code, sem, printed, plain, spin, builtins, safe_globals, safe_locals, calls,
           origOut, origErr, result, exc,
                   bufOut, bufErr, closed, sysStdout, sysStderr, alarmPending,
                   sigHandler, rlimitAS, did, entry >>

\* tool_function(input_data) (lines 348-358) calls execute_and_compare
FacadeCall(c, inp) ==
  /\ fpc = "idle"
  /\ \A o \in Callers : pc[o] = "idle"
  /\ calls[c] < MaxCalls
  /\ fpc' = "L187"
  /\ who' = c
  /\ input' = inp
  /\ UNCHANGED << fcode, expected, compare_mode, exec_result, fresult, fexc,
                  executorVars, cmpVars >>

\* line 187: json.loads; JSONDecodeError goes to line 219
ParseInput ==
  /\ fpc = "L187"
  /\ fpc' = IF input.kind = "raw" THEN "L238" ELSE "L188"
  /\ UNCHANGED << who, input, fcode, expected, compare_mode, exec_result, fresult,
                  fexc, executorVars, cmpVars >>

\* lines 188-190: data.get raises AttributeError unless data is a dict, and
\* line 222 turns that into the map of lines 223-226
GetFields ==
  /\ fpc = "L188"
  /\ IF input.kind = "object"
       THEN /\ fcode' = Get(input.fields.code, PyStr(<<>>))
            /\ expected' = Get(input.fields.expected_output, PyNone)
            /\ compare_mode' = Get(input.fields.compare_mode, PyStr(ModeExact))
            /\ fpc' = "L192"
            /\ UNCHANGED fresult
       ELSE /\ fresult' = ToolError
            /\ fpc' = "returned"
            /\ UNCHANGED << fcode, expected, compare_mode >>
  /\ UNCHANGED << who, input, exec_result, fexc, executorVars, cmpVars >>

\* line 192: len(code) raises TypeError for a code without a length, and
\* print raises ValueError when sys.stdout is a closed buffer
PrintBanner ==
  /\ fpc = "L192"
  /\ IF HasLen(fcode) /\ sysStdout \notin closed
       THEN fpc' = "L195" /\ UNCHANGED fresult
       ELSE fresult' = ToolError /\ fpc' = "returned"
  /\ UNCHANGED << who, input, fcode, expected, compare_mode, exec_result, fexc,
                  executorVars, cmpVars >>

\* line 195: the call of execute begins
CallExecute ==
  /\ fpc = "L195"
  /\ Call(who, fcode, AnyCode)
  /\ fpc' = "in execute"
  /\ UNCHANGED << who, input, fcode, expected, compare_mode, exec_result, fresult,
                  fexc, cmpVars >>

\* lines 195-206: execute has returned; or it has raised, and an Exception
\* goes to line 222 while any other exception leaves execute_and_compare
AfterExecute ==
  /\ fpc = "in execute"
  /\ pc[who] \in {"returned", "raised"}
  /\ Leave(who)
  /\ IF pc[who] = "returned"
       THEN /\ exec_result' = result[who]
            /\ fresult' = FullMap(fcode, result[who], expected)
            /\ fpc' = "L209"
            /\ UNCHANGED fexc
       ELSE IF exc[who] = "BaseException"
       THEN /\ fexc' = exc[who]
            /\ fpc' = "raised"
            /\ UNCHANGED << exec_result, fresult >>
       ELSE /\ fresult' = ToolError
            /\ fpc' = "returned"
            /\ UNCHANGED << exec_result, fexc >>
  /\ UNCHANGED << who, input, fcode, expected, compare_mode, cmpVars >>

\* lines 209-217: expected.strip() (line 271) raises AttributeError unless
\* expected_output is a string
CompareAndReturn ==
  /\ fpc = "L209"
  /\ IF expected # PyNone /\ fresult.execution_success
       THEN IF IsStr(expected)
              THEN fresult' = [fresult EXCEPT !.comparison =
                                 _compare_outputs(fresult.output, expected.val,
                                                  compare_mode)]
              ELSE fresult' = ToolError
       ELSE UNCHANGED fresult
  /\ fpc' = "returned"
  /\ UNCHANGED << who, input, fcode, expected, compare_mode, exec_result, fexc,
                  executorVars, cmpVars >>

\* lines 221 and 238: execute_simple runs inside the except clause of line
\* 219, so that nothing catches what it raises
SimpleBanner ==
  /\ fpc = "L238"
  /\ IF sysStdout \notin closed
       THEN fpc' = "L240" /\ UNCHANGED fexc
       ELSE fexc' = "Exception" /\ fpc' = "raised"
  /\ UNCHANGED << who, input, fcode, expected, compare_mode, exec_result, fresult,
                  executorVars, cmpVars >>

\* line 240
SimpleCallExecute ==
  /\ fpc = "L240"
  /\ Call(who, PyStr(input.text), AnyCode)
  /\ fpc' = "in execute (simple)"
  /\ UNCHANGED << who, input, fcode, expected, compare_mode, exec_result, fresult,
                  fexc, cmpVars >>

\* lines 240-248
SimpleReturn ==
  /\ fpc = "in execute (simple)"
  /\ pc[who] \in {"returned", "raised"}
  /\ Leave(who)
  /\ IF pc[who] = "returned"
       THEN /\ exec_result' = result[who]
            /\ fresult' = SimpleMap(PyStr(input.text), result[who])
            /\ fpc' = "returned"
            /\ UNCHANGED fexc
       ELSE /\ fexc' = exc[who]
            /\ fpc' = "raised"
            /\ UNCHANGED << exec_result, fresult >>
  /\ UNCHANGED << who, input, fcode, expected, compare_mode, cmpVars >>

\* the caller of the tool takes what it returned or raised
FacadeLeave ==
  /\ fpc \in {"returned", "raised"}
  /\ fpc' = "idle"
  /\ input' = RawInput(<<>>)
  /\ fcode' = PyNone
  /\ expected' = PyNone
  /\ compare_mode' = PyNone
  /\ exec_result' = EmptyResult
  /\ fresult' = NoMap
  /\ fexc' = "none"
  /\ UNCHANGED << who, executorVars, cmpVars >>

\* ------------------------------------------------------------ specification
\* one statement of execute, by any caller
ExecuteStatement ==
  \/ \E c \in Callers : SaveStdout(c)
  \/ \E c \in Callers : SaveStderr(c)
  \/ \E c \in Callers : Validate(c)
  \/ \E c \in Callers : Screen(c)
  \/ \E c \in Callers : InstallHandler(c)
  \/ \E c \in Callers : ArmAlarm(c)
  \/ \E c \in Callers : SetLimits(c)
  \/ \E c \in Callers : RedirectStdout(c)
  \/ \E c \in Callers : RedirectStderr(c)
  \/ \E c \in Callers : BuildNamespaces(c)
  \/ \E c \in Callers : ExecStart(c)
  \/ \E c \in Callers : UserPrint(c)
  \/ \E c \in Callers : UserEnd(c)
  \/ \E c \in Callers : UserLoop(c)
  \/ \E c \in Callers : SetSuccess(c)
  \/ \E c \in Callers : SetSuccessMessage(c)
  \/ \E c \in Callers : Handle(c)
  \/ \E c \in Callers : CancelAlarm(c)
  \/ \E c \in Callers : RestoreStdout(c)
  \/ \E c \in Callers : RestoreStderr(c)
  \/ \E c \in Callers : CaptureOutput(c)
  \/ \E c \in Callers : CloseAndReturn(c)

\* one statement of execute, or the alarm, which may fire at any time
ExecuteStep ==
  \/ ExecuteStatement
  \/ AlarmFire
  \/ AlarmFireInSetLimits

\* The threaded server of main.py (app.run, line 143) runs each request in a
\* thread of its own and use_tool (lines 63-86) takes no lock on the way to
\* the shared executor: calls may overlap.
OverlapCall ==
  \E c \in Callers, v \in OverlapInputs :
     /\ calls[c] < MaxOverlapCalls
     /\ Call(c, v, AnyCode)
     /\ UNCHANGED << facadeVars, cmpVars >>

\* the caller of execute takes what it returned or raised
DirectReturn == \E c \in Callers : Leave(c) /\ UNCHANGED << facadeVars, cmpVars >>

Next == OverlapCall \/ ExecuteStep \/ DirectReturn

Spec == Init /\ [][Next]_vars

\* Calls made one at a time, each after the one before it has ended.
SeqCall ==
  \E c \in Callers, v \in CodeInputs :
     /\ \A o \in Callers : pc[o] = "idle"
     /\ \E u \in PlainOf(v) : Call(c, v, u)
     /\ UNCHANGED << facadeVars, cmpVars >>

SeqNext == SeqCall \/ ExecuteStep \/ DirectReturn

SeqSpec == Init /\ [][SeqNext]_vars

\* Calls of the tool (execute_and_compare), one at a time.
FacadeNext ==
  \/ \E c \in Callers, inp \in FacadeInputs : FacadeCall(c, inp)
  \/ ParseInput
  \/ GetFields
  \/ PrintBanner
  \/ CallExecute
  \/ AfterExecute
  \/ CompareAndReturn
  \/ SimpleBanner
  \/ SimpleCallExecute
  \/ SimpleReturn
  \/ FacadeLeave
  \/ ExecuteStep

FacadeSpec == Init /\ [][FacadeNext]_vars

\* _compare_outputs on every pair of strings up to MaxStrLen characters
Strings(n) == UNION { [1..k -> CompareAlphabet] : k \in 0..n }

CompareInit ==
  /\ ExecutorInit
  /\ FacadeInit
  /\ cmpActual \in Strings(MaxStrLen)
  /\ cmpExpected \in Strings(MaxStrLen)
  /\ cmpMode \in CompareModes
  /\ cmpResult = NoComparison

Compare ==
  /\ cmpResult = NoComparison
  /\ cmpResult' = _compare_outputs(cmpActual, cmpExpected, cmpMode)
  /\ UNCHANGED << cmpActual, cmpExpected, cmpMode, executorVars, facadeVars >>

CompareSpec == CompareInit /\ [][Compare]_vars

\* The sequential calls in which the alarm fires no earlier than the
\* submitted code has begun to run: the time limit is whole seconds, the
\* statements before exec take microseconds.
LateAlarm ==
  /\ "exec" \in did[MainThread]
  /\ sem[MainThread].kind # "syntax"
  /\ AlarmFire

LateAlarmNext == SeqCall \/ ExecuteStatement \/ LateAlarm \/ DirectReturn

LateAlarmSeqSpec == Init /\ [][LateAlarmNext]_vars

\* The sequential calls in which the alarm fires only while the submitted
\* code is running, the case the deadline is there for.
TimelyAlarm == pc[MainThread] = "running" /\ AlarmFire

TimelyNext == SeqCall \/ ExecuteStatement \/ TimelyAlarm \/ DirectReturn

TimelySeqSpec == Init /\ [][TimelyNext]_vars

\* the sequential calls under the scheduling the interpreter and the kernel
\* give: a thread that can take a step takes one, and a pending alarm fires
FairSeqSpec == SeqSpec /\ WF_vars(ExecuteStep) /\ WF_vars(AlarmFire)

\* ================================================================== claims
Ended(c) == pc[c] \in {"returned", "raised"}

\* C1: when a call of execute ends, by whichever exit path, sys.stdout and
\* sys.stderr are the sinks that were installed when the call began.
C1_SinksRestoredOnEveryExit ==
  \A c \in Callers :
     Ended(c) => sysStdout = entry[c].out /\ sysStderr = entry[c].err

\* C2: no two calls of execute are at the same time between arming the
\* deadline or redirecting the output and the end of the finally block.
InFlight(c) == ~Ended(c) /\ pc[c] # "idle" /\ did[c] \cap {"alarm", "redirect"} # {}

C2_AtMostOneInFlight ==
  \A c, d \in Callers : c # d => ~(InFlight(c) /\ InFlight(d))

\* C3: for every input execute_and_compare returns, without raising, a map
\* that has the keys code, execution_success, output, errors and message.
C3_FacadeReturnsTheFiveKeys ==
  fpc \in {"returned", "raised"} =>
     /\ fpc = "returned"
     /\ {"code", "execution_success", "output", "errors", "message"} \subseteq fresult.keys

\* C4: for an input that is no structured request the result is that of
\* execute_simple(input): the five keys of lines 242-248, code the whole
\* input, and no error reported.
C4_UnstructuredInputRunsAsCode ==
  (fpc \in {"returned", "raised"} /\ input.kind # "object") =>
     /\ fpc = "returned"
     /\ fresult.keys = {"code", "execution_success", "output", "errors", "message"}
     /\ fresult.code = PyStr(input.text)

\* C5: a code string that contains a deny-listed token, whatever the case
\* of its letters, is rejected before anything is run: the call installs no
\* handler, arms no alarm, applies no limit, redirects no sink and runs no
\* code; it returns success = false, a message that names a deny-listed token
\* occurring in the code, and empty output and errors.
HasDeniedToken(v) ==
  /\ IsStr(v)
  /\ \E b \in blocked_modules :
        \E i \in 0..(Len(v.val) - Len(b)) :
           \A j \in 1..Len(b) : LowerChar(v.val[i + j]) = b[j]

C5_DeniedCodeIsNeverRun ==
  \A c \in Callers :
     (pc[c] # "idle" /\ HasDeniedToken(code[c])) =>
        /\ did[c] = {}
        /\ pc[c] \in {"L75", "L76", "L87", "L92", "L133", "L138", "L139", "L142",
                      "L146", "returned"}
        /\ pc[c] = "returned" =>
             /\ result[c].success = FALSE
             /\ \E b \in blocked_modules :
                   /\ Contains(Lower(code[c].val), b)
                   /\ result[c].message = MsgBlocked(b)
             /\ result[c].output = <<>>
             /\ result[c].errors = <<>>

C5_Witness ==
  /\ pc[MainThread] = "returned"
  /\ code[MainThread] = PyStr(<<"x","O","s">>)
  /\ result[MainThread].message = MsgBlocked(<<"o","s">>)

\* C6: when code that never finishes runs with the deadline armed, the call
\* of execute eventually returns with success = false and the message "Code
\* execution exceeded <N> seconds".
C6_TimeoutEndsTheCall ==
  (/\ pc[MainThread] = "running"
   /\ sem[MainThread].kind \in NonTerminating
   /\ alarmPending)
    ~> (/\ pc[MainThread] = "returned"
        /\ result[MainThread].success = FALSE
        /\ result[MainThread].message = MsgTimeout)

\* C7: every way a call of execute can end gives its own message, and no
\* fault leaves execute as an exception: invalid input gives "Invalid code
\* input" and is never run; expiry of the deadline gives the timeout message;
\* otherwise a syntax error, memory exhaustion and any other fault of the
\* code give theirs; clean completion gives success = true and "Code
\* executed successfully".
ExpectedMessage(c) ==
  CASE "fired" \in did[c] -> MsgTimeout
    [] sem[c].kind = "syntax" -> MsgSyntax
    [] sem[c].kind = "memory" -> MsgMemory
    [] sem[c].kind \in {"exception", "baseexc"} -> MsgExecError
    [] OTHER -> MsgSuccess

C7_EveryCauseHasItsMessage ==
  \A c \in Callers :
     Ended(c) =>
        /\ pc[c] = "returned"
        /\ (~Truthy(code[c]) \/ ~IsStr(code[c])) =>
              /\ result[c].message = MsgInvalid
              /\ result[c].success = FALSE
              /\ "exec" \notin did[c]
        /\ "exec" \in did[c] =>
              /\ result[c].message = ExpectedMessage(c)
              /\ result[c].success = (result[c].message = MsgSuccess)

\* C8: when a call of execute ends, the output sinks, the pending alarm, the
\* SIGALRM handler and the address-space limit are what they were when the
\* call began.
C8_NoGlobalStateSurvives ==
  \A c \in Callers : Ended(c) => Globals = entry[c]

\* C9: in the map returned for a structured request, comparison is non-null
\* exactly when the execution succeeded and expected_output was supplied.
HasComparison(m) == "comparison" \in m.keys /\ m.comparison # NoComparison

C9_ComparisonIffSuccessAndExpected ==
  (fpc = "returned" /\ input.kind = "object") =>
     (HasComparison(fresult) <=> (exec_result.success /\ expected # PyNone))

\* C10: in exact mode match is true exactly when the two strings are equal
\* once leading and trailing whitespace is removed, and similarity is 1.0
\* when they match and 0.0 when they do not.
IsTrimOf(t, s) ==
  \E lo \in 1..(Len(s) + 1), hi \in 0..Len(s) :
     /\ t = SubSeq(s, lo, hi)
     /\ \A i \in 1..(lo - 1) : s[i] \in {" ", "\n", "\t"}
     /\ \A i \in (hi + 1)..Len(s) : s[i] \in {" ", "\n", "\t"}
     /\ t = <<>> \/ (t[1] \notin {" ", "\n", "\t"} /\ t[Len(t)] \notin {" ", "\n", "\t"})

TrimOf(s) == CHOOSE t \in Strings(Len(s)) : IsTrimOf(t, s)

C10_ExactMatchesTrimmedEquality ==
  (cmpResult # NoComparison /\ cmpMode = PyStr(ModeExact)) =>
     /\ cmpResult.match = (TrimOf(cmpActual) = TrimOf(cmpExpected))
     /\ cmpResult.similarity = IF cmpResult.match THEN One ELSE Zero
     /\ cmpActual = cmpExpected => cmpResult.match

C10_Witness ==
  /\ cmpMode = PyStr(ModeExact)
  /\ cmpActual = <<"a", " ">>
  /\ cmpExpected = <<" ", "a">>
  /\ cmpResult.match = TRUE
  /\ cmpResult.similarity = One

\* C11: in fuzzy mode similarity is the matching-block ratio
\* 2*M/(len(a)+len(b)) of the two trimmed strings, it lies in [0,1], match
\* is true exactly when similarity >= 0.80 (0.80 itself matches), and
\* identical trimmed strings give 1.0 and a match.
CharsOf(s) == { s[i] : i \in 1..Len(s) }

FuzzyDone == cmpResult # NoComparison /\ cmpMode = PyStr(ModeFuzzy)

FuzzyRatioAndThreshold ==
  LET a == TrimOf(cmpActual)
      b == TrimOf(cmpExpected)
      sim == cmpResult.similarity
  IN /\ sim.den > 0
     /\ sim.num * (Len(a) + Len(b)) = 2 * Matches(a, b, 0, Len(a), 0, Len(b)) * sim.den
     /\ 0 <= sim.num /\ sim.num <= sim.den
     /\ cmpResult.match = (5 * sim.num >= 4 * sim.den)
     /\ a = b => (sim.num = sim.den /\ cmpResult.match)

NothingInCommon == CharsOf(TrimOf(cmpActual)) \cap CharsOf(TrimOf(cmpExpected)) = {}

BothEmpty == TrimOf(cmpActual) = <<>> /\ TrimOf(cmpExpected) = <<>>

\* C11 as stated: moreover any two strings with no character in common give
\* similarity 0 and no match.
C11_FuzzyDisjointGivesZero ==
  FuzzyDone =>
     /\ FuzzyRatioAndThreshold
     /\ NothingInCommon => (cmpResult.similarity.num = 0 /\ ~cmpResult.match)

\* C11 amended: two strings with no character in common, not both empty once
\* trimmed, give similarity 0 and no match.
C11_FuzzySimilarityAndThreshold ==
  FuzzyDone =>
     /\ FuzzyRatioAndThreshold
     /\ (NothingInCommon /\ ~BothEmpty) =>
           (cmpResult.similarity.num = 0 /\ ~cmpResult.match)

\* the boundary: "ab" against "aba" is 2*2/5 = 0.80, a match
C11_Witness ==
  /\ cmpMode = PyStr(ModeFuzzy)
  /\ cmpActual = <<"a", "b">>
  /\ cmpExpected = <<"a", "b", "a">>
  /\ cmpResult.similarity = Frac(4, 5)
  /\ cmpResult.match = TRUE

\* C12: for every non-empty code that is valid, only computes with the
\* permitted built-ins and ends within the limits, execute returns success
\* true and an output that is exactly what the code prints when run on its
\* own.
RECURSIVE Printout(_, _)
Printout(c, n) == IF n = 0 THEN <<>> ELSE Printout(c, n - 1) \o PrintText(c)

C12_PureCodeSucceedsWithItsOutput ==
  \A c \in Callers :
     (pc[c] = "returned" /\ plain[c].pure /\ code[c] # PyStr(<<>>)) =>
        /\ result[c].success
        /\ result[c].output = Printout(c, plain[c].prints)

\* C13: whenever execute returns, by whichever branch, no alarm that the call
\* armed is still pending: a pending alarm is always one that the call of the
\* main thread now in flight has armed, so that none fires after a return or
\* during a later call.
C13_NoAlarmPendingAfterReturn ==
  /\ \A c \in Callers :
        (pc[c] = "returned" /\ "alarm" \in did[c]) => ~alarmPending
  /\ alarmPending =>
        /\ pc[MainThread] \notin {"idle", "returned", "raised"}
        /\ "alarm" \in did[MainThread]

\* a call that armed the alarm, ran its code to the end and has returned
C13_Witness ==
  /\ pc[MainThread] = "returned"
  /\ did[MainThread] = {"handler", "alarm", "rlimit", "redirect", "exec"}
  /\ result[MainThread].success
  /\ calls[MainThread] = 2
  /\ ~alarmPending

\* C14: each call builds a new restricted global namespace and a new empty
\* local namespace: what a name is bound to in the namespaces of a call is
\* what Python bound it to or what the code of this same call bound it to,
\* never what the code of an earlier call did.
C14_NamespacesAreFresh ==
  \A c \in Callers :
     pc[c] \in {"L117", "running"} =>
        /\ safe_globals[c] \in {Original, BoundBy(c, calls[c])}
        /\ safe_locals[c] \subseteq {BoundBy(c, calls[c])}

\* C15: once two calls of execute that overlapped have both returned,
\* sys.stdout and sys.stderr are the sinks of the process, not the closed
\* capture buffer of either call.
C15_SinksRestoredAfterOverlap ==
  (\A c \in Callers : pc[c] = "returned") =>
     /\ sysStdout = OrigSink
     /\ sysStderr = OrigSink

\* C16: in every result that execute returns, success is true exactly when
\* message is 'Code executed successfully', at whatever point the alarm fires.
C16_SuccessIffSuccessMessage ==
  \A c \in Callers :
     pc[c] = "returned" => (result[c].success <=> result[c].message = MsgSuccess)

====
